---- MODULE Spec2Model ----
(***************************************************************************)
(* Model of yarre-uk/backup-service.                                       *)
(*                                                                         *)
(*   receiver/receiver.py  the Archive Store and its Retention Enforcer    *)
(*                         (BackupManager, the POST /backup handler)       *)
(*   sender/sender.py      the Delivery Agent: ledger (BackupTracker),     *)
(*                         reconciler, stability detector, upload client   *)
(*                                                                         *)
(* The two sides talk over HTTP only, so each has its own specification:   *)
(* SpecStore for the receiver, SpecAgent (FairAgent with fairness) for the *)
(* sender, where the other side is the environment.                        *)
(* SpecUploads is the receiver with a history of what it wrote,           *)
(* SpecStoreDiskFull and SpecStoreCrash the receiver with a write that     *)
(* fails midway and with a kill and restart; SpecLedger calls the methods  *)
(* of BackupTracker in any order.                                          *)
(* SpecCycle is the sender with a history of what each run did.            *)
(***************************************************************************)
EXTENDS Integers, Sequences, FiniteSets, TLC

VARIABLES
    games,      \* receiver: BackupManager.games, game name -> config
    archive,    \* receiver: game name -> the entries of its archive_path
    now,        \* receiver: the file system's timestamp of the latest write
    req,        \* receiver: per connection, the POST /backup handler's frame
    ingests,    \* receiver: number of requests handled so far (bounded)
    uploads,    \* receiver, history: the uploads save_backup wrote in full
    watch,      \* sender: the entries of watch_directory
    tracker_file, \* sender: .backup_tracker.csv as it is on disk
    sender,     \* sender: the running BackupSender process (or none)
    cycle       \* sender, history: the detector's verdicts and the uploads
                \* of the latest run

storeVars == <<games, archive, now, req, ingests, uploads>>

agentVars == <<watch, tracker_file, sender>>

vars == <<games, archive, now, req, ingests, uploads, watch, tracker_file, sender, cycle>>

(***************************************************************************)
(* Bounds of the model.                                                    *)
(***************************************************************************)
MaxSize == 2        \* uploaded files are 0..MaxSize bytes long
MaxIngests == 3     \* requests handled in one behaviour

(***************************************************************************)
(* File names are sequences of tokens, the last ones being the extension   *)
(* parts, so that str.endswith can be computed.                            *)
(***************************************************************************)
FileA == <<"a", ".zip">>
FileB == <<"b", ".tar", ".gz">>
FileC == <<"c", ".tar">>

UploadNames == {FileA, FileB, FileC}
ArchiveNames == UploadNames
Sizes == 0..MaxSize

(***************************************************************************)
(* Receiver configuration.  max_size_gb is a YAML number; it is kept as    *)
(* the exact fraction num/den with den a power of two dividing 2^30, so    *)
(* that max_size_gb * 1024 * 1024 * 1024 is computed exactly.  One stream  *)
(* ("alpha") is configured, with a budget of 1 byte, of 2 bytes, or with   *)
(* retention disabled (0 or -1 GB); "zeta" is a stream nobody configured.  *)
(***************************************************************************)
Gb(num, den) == [num |-> num, den |-> den]

GameConfigs ==
    { [alpha |-> [max_size_gb |-> Gb(1, 1024 * 1024 * 1024)]],
      [alpha |-> [max_size_gb |-> Gb(2, 1024 * 1024 * 1024)]],
      [alpha |-> [max_size_gb |-> Gb(0, 1)]],
      [alpha |-> [max_size_gb |-> Gb(-1, 1)]] }

Configured == {"alpha"}
GameNames == Configured \cup {"zeta"}

\* receiver.py:58  max_size_bytes = max_size_gb * 1024 * 1024 * 1024
max_size_bytes(g) ==
    games[g].max_size_gb.num * ((1024 * 1024 * 1024) \div games[g].max_size_gb.den)

\* a slip: only a budget of exactly 0 disables retention
retention_disabled_zero(g) == games[g].max_size_gb.num = 0

\* receiver.py:55  max_size_gb <= 0
retention_disabled(g) == games[g].max_size_gb.num <= 0

(***************************************************************************)
(* Directory entries of an archive_path.                                   *)
(***************************************************************************)
Absent ==
    [exists |-> FALSE, is_file |-> FALSE, st_size |-> 0, st_mtime |-> 0, data |-> <<>>]
\* a file of sz bytes, all zero
RegularFile(sz, t) ==
    [exists |-> TRUE, is_file |-> TRUE, st_size |-> sz, st_mtime |-> t,
     data |-> [i \in 1..sz |-> 0]]
Directory(t) ==
    [exists |-> TRUE, is_file |-> FALSE, st_size |-> 0, st_mtime |-> t, data |-> <<>>]

\* the bodies of the uploads: zero bytes of every length; and the same with
\* a body that differs from another of its length by its bytes alone
Bodies == {[i \in 1..n |-> 0] : n \in Sizes}
Payloads == Bodies \cup {<<1>>}

\* a slip: the file opened in mode 'ab'
written_append(prior, body, t) ==
    [RegularFile(Len(prior.data) + Len(body), t) EXCEPT !.data = prior.data \o body]

\* receiver.py:36-37  open(file_path, 'wb') and shutil.copyfileobj: the file
\* that replaces the entry `prior` when the whole body was copied
written(prior, body, t) ==
    [RegularFile(Len(body), t) EXCEPT !.data = body]

\* Path(archive_path).iterdir(): the names present
iterdir(d) == {n \in DOMAIN d : d[n].exists}

\* b.is_file(): False for a directory and for a name that no longer exists
is_file(d, n) == d[n].exists /\ d[n].is_file

\* the regular files of a directory, and their total size
ResidentFiles(d) == {n \in DOMAIN d : is_file(d, n)}

RECURSIVE SumSizes(_, _)
SumSizes(d, S) ==
    IF S = {} THEN 0
    ELSE LET n == CHOOSE x \in S : TRUE
         IN  d[n].st_size + SumSizes(d, S \ {n})

\* a slip: max(...) where the code has sum(...)
RECURSIVE MaxSizeIn(_, _)
MaxSizeIn(d, S) ==
    IF S = {} THEN 0
    ELSE LET n == CHOOSE x \in S : TRUE
             m == MaxSizeIn(d, S \ {n})
         IN  IF d[n].st_size > m THEN d[n].st_size ELSE m

total_size_largest(d) == MaxSizeIn(d, ResidentFiles(d))

\* receiver.py:67  sum(b.stat().st_size for b in backups if b.is_file())
total_size_of(d) == SumSizes(d, ResidentFiles(d))

(***************************************************************************)
(* receiver.py:61-64  sorted(iterdir(), key=st_mtime).  sorted() is stable *)
(* and iterdir() yields in arbitrary order, so entries of equal mtime may  *)
(* come out in any order: every listing ascending in mtime is possible.    *)
(***************************************************************************)
Orderings(S) ==
    {s \in [1..Cardinality(S) -> S] : \A i, j \in 1..Cardinality(S) : i # j => s[i] # s[j]}

AscendingMtime(d, s) ==
    \A i, j \in 1..Len(s) : i < j => d[s[i]].st_mtime <= d[s[j]].st_mtime

\* a slip: the listing sorted with reverse=True
sorted_backups_newest_first(d) ==
    {s \in Orderings(iterdir(d)) :
       \A i, j \in 1..Len(s) : i < j => d[s[i]].st_mtime >= d[s[j]].st_mtime}

\* a slip: the listing without the sort key
sorted_backups_unsorted(d) == Orderings(iterdir(d))

sorted_backups(d) == {s \in Orderings(iterdir(d)) : AscendingMtime(d, s)}

(***************************************************************************)
(* receiver.py:95-122: get_stats for one game's directory.  round(x, 2) of *)
(* the fraction num/den is kept as a whole number of hundredths (halves go *)
(* to the even neighbour, as Python rounds a float that is exactly half).  *)
(***************************************************************************)
round(num, den) ==
    LET q == (num * 100) \div den
        r == (num * 100) % den
    IN  IF 2 * r > den \/ (2 * r = den /\ q % 2 = 1) THEN q + 1 ELSE q

DescendingMtime(d, s) ==
    \A i, j \in 1..Len(s) : i < j => d[s[i]].st_mtime >= d[s[j]].st_mtime

\* sorted(backup_files, key=mtime, reverse=True)[:10], every order iterdir allows
newest_first(d) ==
    {SubSeq(s, 1, IF Len(s) < 10 THEN Len(s) ELSE 10) :
       s \in {o \in Orderings(ResidentFiles(d)) : DescendingMtime(d, o)}}

backup_count(d) == Cardinality(ResidentFiles(d))

\* the possible responses for a directory
get_stats(d) ==
    {[backup_count |-> backup_count(d),
      total_size_gb |-> round(SumSizes(d, ResidentFiles(d)), 1024 * 1024 * 1024),
      backups |-> [i \in 1..Len(s) |->
                     [filename |-> s[i],
                      size_mb |-> round(d[s[i]].st_size, 1024 * 1024),
                      modified |-> d[s[i]].st_mtime]]] :
       s \in newest_first(d)}

(***************************************************************************)
(* The POST /backup handler (receive_backup -> save_backup ->              *)
(* enforce_size_limit).  A frame:                                          *)
(*   pc        "idle" | "received" | "saved" | "evicting" | "enforced" | "done" *)
(*   game_name, filename, size   the request                               *)
(*   backups, total_size, removed   locals of enforce_size_limit           *)
(*   evicted   the names unlinked by this pass, in order                   *)
(*   before    the archive directory when enforce_size_limit listed it     *)
(*   after     the archive directory when the handler returned             *)
(*   status    HTTP status of the response (0: none yet)                   *)
(***************************************************************************)
Conns == {1, 2}

NoDir == [n \in ArchiveNames |-> Absent]

IdleFrame ==
    [pc |-> "idle", game_name |-> "zeta", filename |-> FileA, size |-> 0,
     backups |-> <<>>, total_size |-> 0, removed |-> 0, evicted |-> <<>>,
     before |-> NoDir, after |-> NoDir, status |-> 0, body |-> <<>>]

InHandler(c) == req[c].pc \in {"saved", "evicting", "enforced"}

\* a slip: a loop that always keeps the last entry of the listing
over_limit_keep_newest(c) ==
    req[c].total_size > max_size_bytes(req[c].game_name) /\ Len(req[c].backups) > 1

\* a slip: >= where the loop has >
over_limit_at_budget(c) ==
    req[c].total_size >= max_size_bytes(req[c].game_name) /\ req[c].backups # <<>>

\* the loop condition of receiver.py:71
over_limit(c) ==
    req[c].total_size > max_size_bytes(req[c].game_name) /\ req[c].backups # <<>>

(***************************************************************************)
(* receiver.py:130-138.  receive_backup is an `async def` endpoint whose   *)
(* body calls manager.save_backup synchronously and never awaits, and      *)
(* uvicorn.run(app) serves with one process and one event loop: a handler  *)
(* body starts only when no other handler body is running.                 *)
(***************************************************************************)
\* a slip: a plain `def` endpoint, which FastAPI runs in a thread pool
EventLoopShared == TRUE

EventLoopFree == \A c \in Conns : ~InHandler(c)

(***************************************************************************)
(* receiver.py:24-37: save_backup up to the end of the file write.         *)
(* open(file_path, 'wb') creates or truncates the file and copyfileobj     *)
(* writes the upload: the file's mtime is the time of this write, which is *)
(* the previous write's timestamp or a later one.                          *)
(***************************************************************************)
\* a slip: a handler without the `except ValueError` clause, every failure
\* answered by the generic clause
Respond_server_error(c, g, fn, body, st) ==
    [IdleFrame EXCEPT !.pc = "done", !.game_name = g, !.filename = fn,
                      !.size = Len(body), !.body = body,
                      !.status = 500,
                      !.before = IF g \in Configured THEN archive[g] ELSE NoDir,
                      !.after = IF g \in Configured THEN archive[g] ELSE NoDir]

\* receiver.py:149-153: the frame of a handler that answered with an error
Respond(c, g, fn, body, st) ==
    [IdleFrame EXCEPT !.pc = "done", !.game_name = g, !.filename = fn,
                      !.size = Len(body), !.body = body,
                      !.status = st,
                      !.before = IF g \in Configured THEN archive[g] ELSE NoDir,
                      !.after = IF g \in Configured THEN archive[g] ELSE NoDir]

\* receiver.py:130-134: a POST /backup request is arriving on connection c
\* (the lowest one free); its handler body has yet to run
receive_backup(c) ==
    /\ req[c].pc \in {"idle", "done"}
    /\ \A k \in Conns : k < c => req[k].pc \notin {"idle", "done"}
    /\ ingests < MaxIngests
    /\ ingests' = ingests + 1
    /\ req' = [req EXCEPT ![c] = [IdleFrame EXCEPT !.pc = "received"]]
    /\ UNCHANGED <<games, archive, now>>

\* the frames when the handler body of connection c starts or ends as fr:
\* the frames of handlers that returned before are dropped
Frames(c, fr) ==
    [k \in Conns |-> IF k = c THEN fr
                     ELSE IF req[k].pc = "done" THEN IdleFrame ELSE req[k]]

\* receiver.py:138, 24-37: the handler body starts, with the form's game_name
\* and the uploaded file (its name fn, its bytes body)
save_backup(c, g, fn, body) ==
    /\ req[c].pc = "received"
    /\ EventLoopFree
    /\ IF g \notin DOMAIN games
       THEN \* ValueError -> HTTPException(400)
            /\ req' = Frames(c, Respond(c, g, fn, body, 400))
            /\ UNCHANGED <<archive, now>>
       ELSE IF archive[g][fn].exists /\ ~archive[g][fn].is_file
       THEN \* open() raises IsADirectoryError -> HTTPException(500)
            /\ req' = Frames(c, Respond(c, g, fn, body, 500))
            /\ UNCHANGED <<archive, now>>
       ELSE \E t \in {now, now + 1} :
            /\ now' = t
            /\ archive' = [archive EXCEPT ![g][fn] = written(archive[g][fn], body, t)]
            /\ req' = Frames(c, [IdleFrame EXCEPT !.pc = "saved", !.game_name = g,
                                                  !.filename = fn, !.size = Len(body),
                                                  !.body = body])
    /\ UNCHANGED <<games, ingests>>

\* a slip: a pass that accounts for the file just written only, as if the
\* directory held nothing from before
enforce_size_limit_own(c) ==
    /\ req[c].pc = "saved"
    /\ LET g == req[c].game_name IN
       IF retention_disabled(g)
       THEN req' = [req EXCEPT ![c].pc = "enforced", ![c].before = archive[g]]
       ELSE req' = [req EXCEPT ![c].pc = "evicting",
                               ![c].backups = <<req[c].filename>>,
                               ![c].total_size = archive[g][req[c].filename].st_size,
                               ![c].before = archive[g]]
    /\ UNCHANGED <<games, archive, now, ingests>>

(***************************************************************************)
(* receiver.py:50-67: enforce_size_limit up to the loop.                   *)
(***************************************************************************)
enforce_size_limit(c) ==
    /\ req[c].pc = "saved"
    /\ LET g == req[c].game_name IN
       IF retention_disabled(g)
       THEN req' = [req EXCEPT ![c].pc = "enforced", ![c].before = archive[g]]
       ELSE \E s \in sorted_backups(archive[g]) :
              req' = [req EXCEPT ![c].pc = "evicting",
                                 ![c].backups = s,
                                 ![c].total_size = total_size_of(archive[g]),
                                 ![c].before = archive[g]]
    /\ UNCHANGED <<games, archive, now, ingests>>

(***************************************************************************)
(* receiver.py:71-78: one iteration of the eviction loop.                  *)
(***************************************************************************)
evict_oldest(c) ==
    /\ req[c].pc = "evicting"
    /\ over_limit(c)
    /\ LET g == req[c].game_name
           oldest == Head(req[c].backups)
       IN  IF is_file(archive[g], oldest)
           THEN /\ archive' = [archive EXCEPT ![g][oldest] = Absent]
                /\ req' = [req EXCEPT
                             ![c].backups = Tail(@),
                             ![c].total_size = @ - archive[g][oldest].st_size,
                             ![c].removed = @ + 1,
                             ![c].evicted = Append(@, oldest)]
           ELSE /\ req' = [req EXCEPT ![c].backups = Tail(@)]
                /\ UNCHANGED archive
    /\ UNCHANGED <<games, now, ingests>>

\* receiver.py:71, 80-82: the loop ends and enforce_size_limit returns
enforce_done(c) ==
    /\ req[c].pc = "evicting"
    /\ ~over_limit(c)
    /\ req' = [req EXCEPT ![c].pc = "enforced"]
    /\ UNCHANGED <<games, archive, now, ingests>>

\* receiver.py:45-48, 140-148: show_stats, return, the 200 response
respond_success(c) ==
    /\ req[c].pc = "enforced"
    /\ req' = [req EXCEPT ![c].pc = "done", ![c].status = 200,
                          ![c].after = archive[req[c].game_name]]
    /\ UNCHANGED <<games, archive, now, ingests>>

(***************************************************************************)
(* Faults of the receiver.                                                 *)
(***************************************************************************)
\* receiver.py:36-37, 151-153: the write fails after k bytes of the body
\* (OSError from f.write, the disk being full).  open(file_path, 'wb') has
\* truncated or created the file, the `with` closes it, nothing removes it;
\* the exception reaches receive_backup, which answers 500.
save_backup_interrupted(c, g, fn, body, k) ==
    /\ req[c].pc = "received"
    /\ EventLoopFree
    /\ g \in DOMAIN games
    /\ ~(archive[g][fn].exists /\ ~archive[g][fn].is_file)
    /\ k < Len(body)
    /\ \E t \in {now, now + 1} :
         /\ now' = t
         /\ archive' = [archive EXCEPT
                          ![g][fn] = written(archive[g][fn], SubSeq(body, 1, k), t)]
    /\ req' = Frames(c, [Respond(c, g, fn, body, 500) EXCEPT !.after = archive'[g]])
    /\ UNCHANGED <<games, ingests>>

\* the receiver process is killed inside a handler, after the file was
\* written and before enforce_size_limit returned, and is started again
\* (receiver.py:14-22: makedirs(exist_ok=True) keeps what the directories
\* hold; the frames and the open connections are gone)
receiver_killed ==
    /\ \E c \in Conns : req[c].pc \in {"saved", "evicting"}
    /\ req' = [c \in Conns |-> IdleFrame]
    /\ UNCHANGED <<games, archive, now, ingests>>

(***************************************************************************)
(*                       sender/sender.py                                   *)
(***************************************************************************)
Notes == <<"notes", ".txt">>
TrackerName == <<".backup_tracker", ".csv">>
WatchDirName == <<"watch">>

\* the producer writes FileA and FileB; FileC is a directory and Notes a
\* text file, both always there
ProducedNames == {FileA, FileB}
WatchNames == ProducedNames \cup {FileC, Notes}

\* sender.py:80  the default backup_extensions
backup_extensions == {<<".tar", ".gz">>, <<".zip">>, <<".tar">>}

\* str.endswith
endswith(s, suffix) ==
    /\ Len(suffix) <= Len(s)
    /\ SubSeq(s, Len(s) - Len(suffix) + 1, Len(s)) = suffix

\* os.path.join(self.watch_dir, file)
join(dir, file) == dir \o file

\* sender.py:89-90
is_backup_file(filepath) == \E ext \in backup_extensions : endswith(filepath, ext)

\* a slip: the listing without the os.path.isfile test
current_files_unfiltered ==
    {f \in iterdir(watch) : is_backup_file(join(WatchDirName, f))}

\* sender.py:96-100  the listing of reconcile_directory; the tracker file
\* lives in the watched directory too
current_files ==
    {f \in iterdir(watch) : is_file(watch, f) /\ is_backup_file(join(WatchDirName, f))}
    \cup (IF tracker_file.exists /\ is_backup_file(join(WatchDirName, TrackerName))
          THEN {TrackerName} ELSE {})

(***************************************************************************)
(* BackupTracker (sender.py:34-71).  records is a dict, which keeps        *)
(* insertion order: a sequence of [filename, is_sent].                     *)
(***************************************************************************)
Tracked(recs) == {recs[i].filename : i \in DOMAIN recs}

IndexOf(recs, f) == CHOOSE i \in DOMAIN recs : recs[i].filename = f

\* self.records[filename] = value
set_record(recs, f, value) ==
    IF f \in Tracked(recs)
    THEN [recs EXCEPT ![IndexOf(recs, f)].is_sent = value]
    ELSE Append(recs, [filename |-> f, is_sent |-> value])

\* a slip: the flag written in lower case
str_lower(b) == IF b THEN "true" ELSE "false"

\* str(is_sent), sender.py:54
str(b) == IF b THEN "True" ELSE "False"

\* sender.py:49-54  _save: the file after a completed write
save(recs) ==
    [exists |-> TRUE,
     rows |-> [i \in DOMAIN recs |->
                 [filename |-> recs[i].filename, is_sent |-> str(recs[i].is_sent)]]]

\* sender.py:40-47  _load
RECURSIVE load_rows(_, _)
load_rows(rows, recs) ==
    IF rows = <<>> THEN recs
    ELSE load_rows(Tail(rows),
                   set_record(recs, Head(rows).filename, Head(rows).is_sent = "True"))

load(file) == IF file.exists THEN load_rows(file.rows, <<>>) ELSE <<>>

\* a slip: add_file without the membership test
add_file_overwrite(recs, f) == set_record(recs, f, FALSE)

\* sender.py:56-59
add_file(recs, f) == IF f \notin Tracked(recs) THEN set_record(recs, f, FALSE) ELSE recs

\* sender.py:61-63
mark_sent(recs, f) == set_record(recs, f, TRUE)

\* sender.py:65-68
remove_file(recs, f) == SelectSeq(recs, LAMBDA r : r.filename # f)

\* sender.py:70-71
get_unsent(recs) ==
    LET un == SelectSeq(recs, LAMBDA r : ~r.is_sent)
    IN  [i \in DOMAIN un |-> un[i].filename]

(***************************************************************************)
(* sender.py:50-54.  _save opens the file with 'w', which truncates it,    *)
(* then writes the header and the rows.  A process that dies inside _save  *)
(* leaves a prefix of the new text: some complete rows, all of them when   *)
(* it dies after the last write (or before the last line end only),        *)
(* possibly followed by a cut row (a prefix of its filename, or its        *)
(* filename and a cut is_sent, which csv.DictReader reads as a value other *)
(* than 'True').                                                           *)
(***************************************************************************)
NamePrefixes(f) == {SubSeq(f, 1, k) : k \in 1..Len(f)}

interrupted_save(recs) ==
    LET rows == save(recs).rows
    IN  {[exists |-> TRUE, rows |-> SubSeq(rows, 1, j)] : j \in 0..Len(rows)}
        \cup UNION {{[exists |-> TRUE,
                      rows |-> Append(SubSeq(rows, 1, j), [filename |-> q, is_sent |-> ""])] :
                       q \in NamePrefixes(rows[j + 1].filename)} :
                    j \in 0..(Len(rows) - 1)}

(***************************************************************************)
(* The BackupSender process.  pc:                                          *)
(*   "down"        no process                                              *)
(*   "loaded"      __init__ done, run() about to reconcile                 *)
(*   "reconciled"  reconcile_directory returned                            *)
(*   "stable"      in _wait_for_file_stable(filename), at the loop head    *)
(*   "send"        send_backup at lines 158-165, the file judged stable    *)
(*   "post"        send_backup at requests.post, the file open             *)
(*   "mark"        send_backup returned True                               *)
(* status_code is response.status_code of the upload in hand (0: none).    *)
(* exit tells how the last process ended: "complete" (run returned),       *)
(* "raised" (an exception left run), "killed" (crash).                     *)
(***************************************************************************)
Down ==
    [pc |-> "down", records |-> <<>>, pending |-> <<>>, filename |-> <<>>,
     previous_size |-> -1, stable_count |-> 0, elapsed |-> 0, same_run |-> 0,
     total_size |-> 0, status_code |-> 0, new_count |-> 0, deleted_count |-> 0,
     exit |-> "none"]

\* sender.py:117 timeout=60; sender.py:144 time.sleep(2); sender.py:137
StableTimeout == 60
PollInterval == 2
StableChecks == 3

\* the history of a run that has called nothing yet:
\*   stable, unstable   the names _wait_for_file_stable answered True, False for
\*   posted             the names requests.post was called for, in order
NoCalls == [stable |-> {}, unstable |-> {}, posted |-> <<>>]

\* sender.py:75-87, 224-244: main() builds the sender, which loads the ledger
start ==
    /\ sender.pc = "down"
    /\ sender' = [Down EXCEPT !.pc = "loaded", !.records = load(tracker_file)]
    /\ UNCHANGED <<watch, tracker_file>>

(***************************************************************************)
(* sender.py:92-115  reconcile_directory.  The directory is read once, at  *)
(* the start; then every tracked name that is gone is removed and every    *)
(* new name is added, in the iteration order of a set (any order), each    *)
(* call saving the ledger.  trail is the ledger after each call.           *)
(***************************************************************************)
RECURSIVE removals(_, _)
removals(recs, names) ==
    IF names = <<>> THEN <<>>
    ELSE LET r == remove_file(recs, Head(names))
         IN  <<r>> \o removals(r, Tail(names))

RECURSIVE additions(_, _)
additions(recs, names) ==
    IF names = <<>> THEN <<>>
    ELSE LET r == add_file(recs, Head(names))
         IN  <<r>> \o additions(r, Tail(names))

Last(recs, t) == IF t = <<>> THEN recs ELSE t[Len(t)]

trail(recs, dels, adds) ==
    LET t1 == removals(recs, dels)
    IN  t1 \o additions(Last(recs, t1), adds)

deleted_files == Tracked(sender.records) \ current_files
new_files == current_files \ Tracked(sender.records)

reconcile_directory ==
    /\ sender.pc = "loaded"
    /\ \E dels \in Orderings(deleted_files), adds \in Orderings(new_files) :
         LET t == trail(sender.records, dels, adds) IN
         /\ sender' = [sender EXCEPT !.pc = "reconciled",
                                     !.records = Last(sender.records, t),
                                     !.new_count = Len(adds),
                                     !.deleted_count = Len(dels)]
         /\ tracker_file' = IF t = <<>> THEN tracker_file
                            ELSE save(Last(sender.records, t))
    /\ UNCHANGED watch

\* the process dies in reconcile_directory: after the i-th save, or inside it
reconcile_crash ==
    /\ sender.pc = "loaded"
    /\ \E dels \in Orderings(deleted_files), adds \in Orderings(new_files) :
         LET t == trail(sender.records, dels, adds) IN
         \E i \in DOMAIN t :
           \E f \in {save(t[i])} \cup interrupted_save(t[i]) :
              tracker_file' = f
    /\ sender' = [Down EXCEPT !.exit = "killed"]
    /\ UNCHANGED watch

(***************************************************************************)
(* sender.py:197-210  process_unsent, the loop over the unsent names.      *)
(***************************************************************************)
\* the call send_backup(filename) for the next name of the loop, up to the
\* loop head of _wait_for_file_stable (sender.py:150-154, 117-121)
send_next(fr) ==
    [fr EXCEPT !.pc = "stable", !.filename = Head(fr.pending), !.pending = Tail(fr.pending),
               !.previous_size = -1, !.stable_count = 0, !.elapsed = 0, !.same_run = 0,
               !.total_size = 0, !.status_code = 0,
               !.new_count = 0, !.deleted_count = 0]

\* the for loop goes on, or process_unsent and run() return and the process exits
continue(fr) ==
    IF fr.pending = <<>> THEN [Down EXCEPT !.exit = "complete"] ELSE send_next(fr)

process_unsent ==
    /\ sender.pc = "reconciled"
    /\ sender' = continue([sender EXCEPT !.pending = get_unsent(sender.records)])
    /\ UNCHANGED <<watch, tracker_file>>

(***************************************************************************)
(* sender.py:117-148  _wait_for_file_stable, one pass of the loop per      *)
(* step.  elapsed is the time slept, in whole seconds; it stops growing    *)
(* once it has reached the timeout.  same_run counts the samples in a row  *)
(* that read the same size, the last one included.                         *)
(***************************************************************************)
slept(e) == IF e >= StableTimeout THEN e ELSE e + PollInterval

\* sender.py:146  time.time() - start_time > timeout, for e seconds slept: the
\* wall time is e plus what the samples took, so it is past the timeout as
\* soon as the time slept reaches it
timed_out(e) == e >= StableTimeout

\* a slip: send_backup going on after the detector answered False
wait_file_disappeared_sends ==
    /\ sender.pc = "stable"
    /\ ~watch[sender.filename].exists
    /\ sender' = [sender EXCEPT !.pc = "send"]
    /\ UNCHANGED <<watch, tracker_file>>

\* sender.py:124-126, 154-156: the file is gone, the detector answers False,
\* send_backup returns False and the loop goes on
wait_file_disappeared ==
    /\ sender.pc = "stable"
    /\ ~watch[sender.filename].exists
    /\ sender' = continue(sender)
    /\ UNCHANGED <<watch, tracker_file>>

\* sender.py:128-133: os.path.getsize raises OSError although the file was
\* there a moment before; sleep and `continue`, past the timeout check
wait_getsize_error ==
    /\ sender.pc = "stable"
    /\ watch[sender.filename].exists
    /\ sender' = [sender EXCEPT !.elapsed = slept(@)]
    /\ UNCHANGED <<watch, tracker_file>>

\* sender.py:135-139: the size equals the previous sample's; `return True`
\* is at the level of `stable_count += 1`, not under `if stable_count >= 3`
wait_same_size ==
    /\ sender.pc = "stable"
    /\ watch[sender.filename].exists
    /\ watch[sender.filename].st_size = sender.previous_size
    /\ sender' = [sender EXCEPT !.pc = "send",
                                !.stable_count = @ + 1,
                                !.same_run = @ + 1]
    /\ UNCHANGED <<watch, tracker_file>>

\* sender.py:140-148: the size changed; sleep, then the timeout check
wait_size_changed ==
    /\ sender.pc = "stable"
    /\ watch[sender.filename].exists
    /\ watch[sender.filename].st_size # sender.previous_size
    /\ LET fr == [sender EXCEPT !.stable_count = 0,
                                !.same_run = 1,
                                !.previous_size = watch[sender.filename].st_size,
                                !.elapsed = slept(@)]
       IN  sender' = IF timed_out(fr.elapsed) THEN continue(fr) ELSE fr
    /\ UNCHANGED <<watch, tracker_file>>

(***************************************************************************)
(* sender.py:158-168  send_backup after the detector said True.  Line 158  *)
(* (os.path.getsize) is outside the try: if the file is gone by then the   *)
(* OSError leaves send_backup, process_unsent and run().  If it went after *)
(* line 158, open (163) or os.path.getsize (165) raises inside the try:    *)
(* the exception is caught at 193, send_backup returns False without       *)
(* calling requests.post and the loop goes on.  Otherwise the file is      *)
(* opened and total_size read.                                             *)
(***************************************************************************)
send_backup_open ==
    /\ sender.pc = "send"
    /\ IF ~watch[sender.filename].exists
       THEN \/ sender' = [Down EXCEPT !.exit = "raised", !.filename = sender.filename,
                                      !.pending = sender.pending]
            \/ sender' = continue(sender)
       ELSE sender' = [sender EXCEPT !.pc = "post",
                                    !.total_size = watch[sender.filename].st_size]
    /\ UNCHANGED <<watch, tracker_file>>

(***************************************************************************)
(* sender.py:172-195  requests.post and what comes back.  requests builds  *)
(* the multipart body by calling wrapped_file.read(), and                  *)
(* ProgressFileWrapper.read (sender.py:19-28) divides by total_size.       *)
(***************************************************************************)
\* sender.py:24: ZeroDivisionError, caught at sender.py:193; nothing is sent
post_zero_division ==
    /\ sender.pc = "post"
    /\ sender.total_size = 0
    /\ sender' = continue(sender)
    /\ UNCHANGED <<watch, tracker_file>>

\* sender.py:179-182: status 200 and a JSON body; send_backup returns True
post_success ==
    /\ sender.pc = "post"
    /\ sender.total_size # 0
    /\ sender' = [sender EXCEPT !.pc = "mark", !.status_code = 200]
    /\ UNCHANGED <<watch, tracker_file>>

\* sender.py:183-195: any other outcome; send_backup returns False
\*   "bad_json"     status 200, response.json() raises (caught at 193)
\*   "rejected"     another status code (183-185)
\*   "timeout"      requests.exceptions.Timeout (187)
\*   "unreachable"  requests.exceptions.ConnectionError (190)
\*   "transport"    any other exception (193)
Failures == {"bad_json", "rejected", "timeout", "unreachable", "transport"}

\* a slip: send_backup answering True whatever came back
post_failure_marks(kind) ==
    /\ sender.pc = "post"
    /\ sender.total_size # 0
    /\ sender' = [sender EXCEPT !.pc = "mark",
                                !.status_code = IF kind = "bad_json" THEN 200
                                                ELSE IF kind = "rejected" THEN 400 ELSE 0]
    /\ UNCHANGED <<watch, tracker_file>>

post_failure(kind) ==
    /\ sender.pc = "post"
    /\ sender.total_size # 0
    /\ sender' = continue(sender)
    /\ UNCHANGED <<watch, tracker_file>>

\* sender.py:207-208: send_backup returned True, tracker.mark_sent(filename)
process_mark_sent ==
    /\ sender.pc = "mark"
    /\ LET recs == mark_sent(sender.records, sender.filename) IN
       /\ sender' = continue([sender EXCEPT !.records = recs])
       /\ tracker_file' = save(recs)
    /\ UNCHANGED watch

\* the process dies inside the _save of mark_sent
mark_sent_crash ==
    /\ sender.pc = "mark"
    /\ tracker_file' \in interrupted_save(mark_sent(sender.records, sender.filename))
    /\ sender' = [Down EXCEPT !.exit = "killed"]
    /\ UNCHANGED watch

\* the process is killed between two steps
crash ==
    /\ sender.pc # "down"
    /\ sender' = [Down EXCEPT !.exit = "killed"]
    /\ UNCHANGED <<watch, tracker_file>>

(***************************************************************************)
(* The producer (archiver/archiver.py, or anything else) creates, rewrites *)
(* and deletes backup files in the watched directory at any time: FileA    *)
(* with any size, FileB always in one shot with MaxSize bytes.             *)
(***************************************************************************)
WrittenSizes(f) == IF f = FileA THEN Sizes ELSE {MaxSize}

write_file(f, sz) ==
    /\ watch[f] # RegularFile(sz, 0)
    /\ watch' = [watch EXCEPT ![f] = RegularFile(sz, 0)]
    /\ UNCHANGED <<tracker_file, sender>>

delete_file(f) ==
    /\ watch[f].exists
    /\ watch' = [watch EXCEPT ![f] = Absent]
    /\ UNCHANGED <<tracker_file, sender>>

(***************************************************************************)
(* BackupManager.__init__ (receiver.py:14-22): makedirs(exist_ok=True)     *)
(* keeps what the archive directories already hold.  The model starts from *)
(* empty archives, or with a subdirectory named c.tar in the archive.      *)
(***************************************************************************)
InitialDirs == {NoDir, [NoDir EXCEPT ![FileC] = Directory(0)]}

QuietAgent ==
    /\ watch = [f \in WatchNames |->
                 IF f = FileC THEN Directory(0)
                 ELSE IF f = Notes THEN RegularFile(1, 0) ELSE Absent]
    /\ tracker_file = [exists |-> FALSE, rows |-> <<>>]
    /\ sender = Down
    /\ cycle = NoCalls

StoreInit ==
    /\ QuietAgent
    /\ games \in GameConfigs
    /\ archive \in [Configured -> InitialDirs]
    /\ now = 0
    /\ req = [c \in Conns |-> IdleFrame]
    /\ ingests = 0
    /\ uploads = {}

StoreStep ==
    \/ \E c \in Conns : receive_backup(c)
    \/ \E c \in Conns, g \in GameNames, fn \in UploadNames, body \in Bodies :
         save_backup(c, g, fn, body)
    \/ \E c \in Conns : enforce_size_limit(c)
    \/ \E c \in Conns : evict_oldest(c)
    \/ \E c \in Conns : enforce_done(c)
    \/ \E c \in Conns : respond_success(c)

StoreNext == StoreStep /\ UNCHANGED <<agentVars, uploads, cycle>>

SpecStore == StoreInit /\ [][StoreNext]_vars

(***************************************************************************)
(* The receiver with a record of what it wrote (SpecUploads): the bodies   *)
(* are drawn from Payloads, and every write save_backup completed is added *)
(* to the history variable uploads.                                        *)
(***************************************************************************)
UploadStep ==
    \/ \E c \in Conns : receive_backup(c) /\ UNCHANGED uploads
    \/ \E c \in Conns, g \in GameNames, fn \in UploadNames, body \in Payloads :
         /\ save_backup(c, g, fn, body)
         /\ uploads' = IF req'[c].pc = "saved"
                        THEN uploads \cup {[game_name |-> g, filename |-> fn, body |-> body]}
                        ELSE uploads
    \/ \E c \in Conns : enforce_size_limit(c) /\ UNCHANGED uploads
    \/ \E c \in Conns : evict_oldest(c) /\ UNCHANGED uploads
    \/ \E c \in Conns : enforce_done(c) /\ UNCHANGED uploads
    \/ \E c \in Conns : respond_success(c) /\ UNCHANGED uploads

UploadNext == UploadStep /\ UNCHANGED <<agentVars, cycle>>

SpecUploads == StoreInit /\ [][UploadNext]_vars

(***************************************************************************)
(* The receiver on a disk that may fill up during a write                  *)
(* (SpecStoreDiskFull), and the receiver killed and restarted              *)
(* (SpecStoreCrash).                                                       *)
(***************************************************************************)
DiskFull ==
    \E c \in Conns, g \in GameNames, fn \in UploadNames, body \in Bodies, k \in Sizes :
      save_backup_interrupted(c, g, fn, body, k)

DiskFullNext == (StoreStep \/ DiskFull) /\ UNCHANGED <<agentVars, uploads, cycle>>

SpecStoreDiskFull == StoreInit /\ [][DiskFullNext]_vars

CrashNext == (StoreStep \/ receiver_killed) /\ UNCHANGED <<agentVars, uploads, cycle>>

SpecStoreCrash == StoreInit /\ [][CrashNext]_vars

(***************************************************************************)
(* The sender's specification: a fresh watched directory with no ledger,   *)
(* the scheduler starting a run whenever none is running.                  *)
(***************************************************************************)
QuietStore ==
    /\ games = [alpha |-> [max_size_gb |-> Gb(0, 1)]]
    /\ archive = [g \in Configured |-> NoDir]
    /\ now = 0
    /\ req = [c \in Conns |-> IdleFrame]
    /\ ingests = 0
    /\ uploads = {}

AgentInit == QuietStore /\ QuietAgent

AgentStep ==
    \/ start
    \/ reconcile_directory
    \/ process_unsent
    \/ wait_file_disappeared
    \/ wait_same_size
    \/ wait_size_changed
    \/ send_backup_open
    \/ post_zero_division
    \/ post_success
    \/ \E kind \in Failures : post_failure(kind)
    \/ process_mark_sent

AgentFault ==
    \/ wait_getsize_error
    \/ reconcile_crash
    \/ mark_sent_crash
    \/ crash

Producer ==
    \/ \E f \in ProducedNames : \E sz \in WrittenSizes(f) : write_file(f, sz)
    \/ \E f \in ProducedNames : delete_file(f)

AgentNext ==
    /\ UNCHANGED <<storeVars, cycle>>
    /\ (AgentStep \/ AgentFault \/ Producer)

SpecAgent == AgentInit /\ [][AgentNext]_vars

(***************************************************************************)
(* The sender with a record of what each run did (SpecCycle): the steps of *)
(* SpecAgent, every answer of the detector and every call of requests.post *)
(* being added to the history variable cycle, which a new run resets.      *)
(***************************************************************************)
CycleStep ==
    \/ start /\ cycle' = NoCalls
    \/ (reconcile_directory \/ process_unsent \/ send_backup_open \/ process_mark_sent)
         /\ UNCHANGED cycle
    \/ wait_file_disappeared
         /\ cycle' = [cycle EXCEPT !.unstable = @ \cup {sender.filename}]
    \/ wait_same_size
         /\ cycle' = [cycle EXCEPT !.stable = @ \cup {sender.filename}]
    \/ wait_size_changed
         /\ cycle' = IF timed_out(slept(sender.elapsed))
                      THEN [cycle EXCEPT !.unstable = @ \cup {sender.filename}]
                      ELSE cycle
    \/ (post_zero_division \/ post_success \/ \E kind \in Failures : post_failure(kind))
         /\ cycle' = [cycle EXCEPT !.posted = Append(@, sender.filename)]
    \/ (AgentFault \/ Producer) /\ UNCHANGED cycle

CycleNext == CycleStep /\ UNCHANGED storeVars

SpecCycle == AgentInit /\ [][CycleNext]_vars

\* sender.py:224-244 under a scheduler (cron, a timer) that keeps starting
\* runs: a process that can take a step of its code eventually takes one
FairAgent == SpecAgent /\ WF_agentVars(AgentStep)

(***************************************************************************)
(* The ledger on its own: a BackupTracker (sender.py:34-71) driven through *)
(* its methods with any names, in any order.  sender.records is the        *)
(* tracker's records, sender.pc the method called last ("init" for the     *)
(* constructor), sender.filename its argument, sender.exit how it ended    *)
(* ("returned"; no method of the class raises).  A process killed inside   *)
(* _save leaves a cut file ("dead"), from which the next tracker is built. *)
(***************************************************************************)
ApiNames == ProducedNames

Returns(op, f, recs) ==
    [sender EXCEPT !.pc = op, !.filename = f, !.records = recs, !.exit = "returned"]

\* sender.py:35-38: BackupTracker(tracker_file)
tracker_init ==
    /\ sender' = [Down EXCEPT !.pc = "init", !.records = load(tracker_file),
                              !.exit = "returned"]
    /\ UNCHANGED <<watch, tracker_file>>

\* sender.py:56-59
call_add_file(f) ==
    /\ sender.pc # "dead"
    /\ sender' = Returns("add_file", f, add_file(sender.records, f))
    /\ tracker_file' = IF f \notin Tracked(sender.records)
                       THEN save(add_file(sender.records, f)) ELSE tracker_file
    /\ UNCHANGED watch

\* sender.py:61-63
call_mark_sent(f) ==
    /\ sender.pc # "dead"
    /\ sender' = Returns("mark_sent", f, mark_sent(sender.records, f))
    /\ tracker_file' = save(mark_sent(sender.records, f))
    /\ UNCHANGED watch

\* sender.py:65-68
call_remove_file(f) ==
    /\ sender.pc # "dead"
    /\ sender' = Returns("remove_file", f, remove_file(sender.records, f))
    /\ tracker_file' = IF f \in Tracked(sender.records)
                       THEN save(remove_file(sender.records, f)) ELSE tracker_file
    /\ UNCHANGED watch

\* sender.py:50-54: the process dies inside the _save of mark_sent(f), of
\* add_file(f) for an untracked f, or of remove_file(f) for a tracked f
killed_in_save(f) ==
    /\ sender.pc # "dead"
    /\ \E recs \in {mark_sent(sender.records, f)}
                   \cup (IF f \in Tracked(sender.records)
                         THEN {remove_file(sender.records, f)}
                         ELSE {add_file(sender.records, f)}) :
         tracker_file' \in interrupted_save(recs)
    /\ sender' = [Down EXCEPT !.pc = "dead", !.exit = "killed"]
    /\ UNCHANGED watch

\* a tracker built in a fresh directory, where there is no ledger file
LedgerInit ==
    /\ QuietStore
    /\ watch = [f \in WatchNames |-> Absent]
    /\ tracker_file = [exists |-> FALSE, rows |-> <<>>]
    /\ sender = [Down EXCEPT !.pc = "init", !.exit = "returned"]
    /\ cycle = NoCalls

LedgerStep ==
    \/ tracker_init
    \/ \E f \in ApiNames : call_add_file(f)
    \/ \E f \in ApiNames : call_mark_sent(f)
    \/ \E f \in ApiNames : call_remove_file(f)
    \/ \E f \in ApiNames : killed_in_save(f)

LedgerNext == LedgerStep /\ UNCHANGED <<storeVars, cycle>>

SpecLedger == LedgerInit /\ [][LedgerNext]_vars

(***************************************************************************)
(*                          The claims                                      *)
(***************************************************************************)
\* the artifacts of a stream directory: its regular files, and their bytes
Artifacts(d) == {n \in DOMAIN d : d[n].exists /\ d[n].is_file}

RECURSIVE BytesOf(_, _)
BytesOf(d, S) ==
    IF S = {} THEN 0
    ELSE LET n == CHOOSE x \in S : TRUE
         IN  d[n].st_size + BytesOf(d, S \ {n})

ResidentBytes(d) == BytesOf(d, Artifacts(d))

Evicted(f) == {f.evicted[i] : i \in DOMAIN f.evicted}

DistinctMtimes(d) ==
    \A m, n \in Artifacts(d) : m # n => d[m].st_mtime # d[n].st_mtime

\* an ingest that returned with the 200 response, into a stream with budget > 0
Returned(c) ==
    /\ req[c].pc = "done"
    /\ req[c].status = 200
    /\ games[req[c].game_name].max_size_gb.num > 0

\* C1: after each completed ingest into a stream with budget B > 0, the
\* stream's resident bytes are <= B or the stream holds no artifact.
C1_BudgetOrEmpty ==
    \A c \in Conns :
      Returned(c) =>
        \/ ResidentBytes(req[c].after) <= max_size_bytes(req[c].game_name)
        \/ Artifacts(req[c].after) = {}

\* an ingest returned after evicting something and leaving something
C1_Witness ==
    \E c \in Conns :
      /\ Returned(c)
      /\ req[c].evicted # <<>>
      /\ Artifacts(req[c].after) # {}
      /\ ResidentBytes(req[c].after) > 0

\* C3: in a pass over artifacts with distinct mtimes, an evicted artifact is
\* preceded in the eviction order by every artifact that was resident at the
\* start of the pass with a smaller mtime; a single eviction takes the
\* artifact with the smallest mtime.
C3_OldestFirst ==
    \A c \in Conns :
      LET f == req[c]
          d == f.before
      IN  (f.pc \in {"evicting", "enforced", "done"} /\ DistinctMtimes(d)) =>
            /\ \A i \in DOMAIN f.evicted :
                 \A n \in Artifacts(d) :
                   d[n].st_mtime < d[f.evicted[i]].st_mtime =>
                     \E j \in 1..(i - 1) : f.evicted[j] = n
            /\ (f.pc = "done" /\ Len(f.evicted) = 1) =>
                 \A n \in Artifacts(d) : d[f.evicted[1]].st_mtime <= d[n].st_mtime

\* three artifacts with mtimes t1 < t2 < t3, exactly one eviction
C3_Witness ==
    \E c \in Conns :
      /\ Returned(c)
      /\ Cardinality(Artifacts(req[c].before)) = 3
      /\ DistinctMtimes(req[c].before)
      /\ Len(req[c].evicted) = 1

\* an ingest into a stream with budget B > 0 returned, and the artifact it
\* wrote is alone larger than B
OversizeReturned(c) ==
    Returned(c) /\ req[c].size > max_size_bytes(req[c].game_name)

\* the artifact just written has a larger mtime than every other artifact
StrictlyNewest(c) ==
    \A n \in Artifacts(req[c].before) \ {req[c].filename} :
      req[c].before[n].st_mtime < req[c].before[req[c].filename].st_mtime

\* C4 as stated: an ingest whose size alone exceeds the budget B > 0 returns
\* with the stream empty, the artifact just written and all others evicted.
C4_OversizeEmptiesStream ==
    \A c \in Conns :
      OversizeReturned(c) =>
        /\ Artifacts(req[c].after) = {}
        /\ Artifacts(req[c].before) \subseteq Evicted(req[c])

\* C4, amended: such an ingest returns with the artifact just written and
\* every artifact of a smaller mtime evicted; the stream is empty when no
\* other artifact has an mtime as large as that of the one just written.
C4_OversizeEvicted ==
    \A c \in Conns :
      OversizeReturned(c) =>
        /\ req[c].filename \in Evicted(req[c])
        /\ \A n \in Artifacts(req[c].before) :
             req[c].before[n].st_mtime < req[c].before[req[c].filename].st_mtime =>
               n \in Evicted(req[c])
        /\ StrictlyNewest(c) => Artifacts(req[c].after) = {}

\* an oversize ingest returned, the newest of three artifacts, all evicted
C4_Witness ==
    \E c \in Conns :
      /\ OversizeReturned(c)
      /\ StrictlyNewest(c)
      /\ Len(req[c].evicted) = 3

\* C6: the write+enforce sequences of two ingests never overlap, so a pass
\* works on a listing no other pass made stale: what it has not evicted is
\* still there and its running total is the stream's resident bytes.
C6_IngestsSerialized ==
    /\ \A c1, c2 \in Conns : (c1 # c2 /\ InHandler(c1)) => ~InHandler(c2)
    /\ \A c \in Conns :
         req[c].pc = "evicting" =>
           LET g == req[c].game_name IN
           /\ \A n \in ArchiveNames :
                archive[g][n] = IF n \in Evicted(req[c]) THEN Absent ELSE req[c].before[n]
           /\ req[c].total_size = ResidentBytes(archive[g])

\* a pass in the middle of its evictions while a second request has arrived
\* and waits for its handler body to run
C6_Witness ==
    \E c1, c2 \in Conns :
      /\ req[c1].pc = "evicting"
      /\ req[c1].evicted # <<>>
      /\ req[c1].backups # <<>>
      /\ over_limit(c1)
      /\ req[c2].pc = "received"

(***************************************************************************)
(* The ledger as the claims see it: the persisted file as a restart would  *)
(* read it, and the running process's records.                             *)
(***************************************************************************)
DiskSent(n) ==
    LET recs == load(tracker_file)
    IN  \E i \in DOMAIN recs : recs[i].filename = n /\ recs[i].is_sent

MemSent(n) ==
    \E i \in DOMAIN sender.records :
      sender.records[i].filename = n /\ sender.records[i].is_sent

\* the names marked sent, in the file or in the process
SentIn(recs) == {recs[i].filename : i \in {j \in DOMAIN recs : recs[j].is_sent}}

SentNames == SentIn(load(tracker_file)) \cup SentIn(sender.records)

\* C2: an entry becomes sent only in the step that follows a 200 response
\* for that very name; no other upload outcome leads to mark_sent.
C2_SentOnlyAfterSuccess ==
    [][/\ \A n \in SentNames' \ SentNames :
            sender.pc = "mark" /\ sender.filename = n /\ sender.status_code = 200
       /\ (sender.pc = "post" /\ sender'.pc = "mark") => sender'.status_code = 200
      ]_vars

\* a run ended normally and left an entry marked sent on disk
C2_Witness ==
    /\ sender.pc = "down"
    /\ sender.exit = "complete"
    /\ \E n \in ProducedNames : DiskSent(n)

\* the names reconcile_directory should end with: regular files whose name
\* ends in a configured extension (a.zip, b.tar.gz, c.tar; not notes.txt)
HasBackupExtension(f) == f \in {FileA, FileB, FileC}

BackupFilesOnDisk == {f \in WatchNames : watch[f].exists /\ watch[f].is_file /\ HasBackupExtension(f)}

FlagOf(recs, n) == \E i \in DOMAIN recs : recs[i].filename = n /\ recs[i].is_sent

\* C8: when reconcile_directory returns, the ledger's names are exactly the
\* regular files of the directory that match the extension filter, entries
\* tracked before keep their flag, new entries are unsent.
C8_ReconcileExact ==
    [][(sender.pc = "loaded" /\ sender'.pc = "reconciled") =>
         /\ Tracked(sender'.records) = BackupFilesOnDisk
         /\ Len(sender'.records) = Cardinality(BackupFilesOnDisk)
         /\ Tracked(load(tracker_file')) = BackupFilesOnDisk
         /\ \A n \in BackupFilesOnDisk :
              /\ FlagOf(sender'.records, n) =
                   (n \in Tracked(sender.records) /\ FlagOf(sender.records, n))
              /\ FlagOf(load(tracker_file'), n) = FlagOf(sender'.records, n)
      ]_vars

\* reconcile_directory returned having removed a name, added a name and kept
\* a sent entry
C8_Witness ==
    /\ sender.pc = "reconciled"
    /\ sender.new_count = 1
    /\ sender.deleted_count = 1
    /\ \E n \in ProducedNames : MemSent(n)

\* C7: a sent entry whose file stays in the watched directory stays sent,
\* whatever happens, a crash inside a ledger save included.
C7_SentStaysSent ==
    [][\A n \in ProducedNames :
         (DiskSent(n) /\ is_file(watch, n) /\ is_file(watch', n)) => DiskSent(n)'
      ]_vars

\* an upload that the store does not answer with 200 and a JSON body
UploadFails == \E kind \in Failures : post_failure(kind)

\* C5: an artifact that stays in the watched directory with one size is
\* eventually marked sent, provided runs keep being scheduled (FairAgent),
\* and from some time on the process is not killed, reads no size in error,
\* has every upload it makes answered with 200, and no file of the
\* directory is written or deleted any more.
C5_EventuallySent ==
    <>[][~AgentFault /\ ~UploadFails /\ ~Producer]_vars =>
      \A n \in ProducedNames : \A sz \in WrittenSizes(n) :
        <>[](watch[n] = RegularFile(sz, 0)) => <>DiskSent(n)

\* C9: the detector answers stable only after 3 samples in a row read the
\* same size.
C9_StableAfterThreeSamples ==
    sender.pc = "send" => sender.same_run >= StableChecks

\* C10: no run of the agent is ended by an artifact's failure with unsent
\* names of the cycle still to be processed.
C10_CycleNeverAborted ==
    ~(sender.pc = "down" /\ sender.exit = "raised" /\ sender.pending # <<>>)

\* C14: a call of the detector ends; in particular it does not go on
\* sampling once more than the timeout has elapsed, whatever the size reads
\* do (sizes that change at every sample, reads that keep failing).
C14_DetectorTimesOut ==
    sender.pc = "stable" => ~timed_out(sender.elapsed)

\* C15: the progress wrapper changes no outcome: whatever the file's size,
\* an upload that has reached requests.post is marked sent if the store
\* answers 200, and fails only by what the store or the transport answers.
C15_ProgressHasNoEffect ==
    sender.pc = "post" => (ENABLED post_success /\ ~ENABLED post_zero_division)

(***************************************************************************)
(* The ledger's methods (SpecLedger).                                      *)
(***************************************************************************)
\* the mapping name -> sent of a ledger
Mapping(recs) == {<<recs[i].filename, recs[i].is_sent>> : i \in DOMAIN recs}

\* C11: mark_sent of a name that is not tracked fails with NotTracked and
\* changes neither the records nor the persisted file.
C11_MarkSentUntrackedFails ==
    [][(sender'.pc = "mark_sent" /\ sender'.filename \notin Tracked(sender.records)) =>
         /\ sender'.exit = "NotTracked"
         /\ sender'.records = sender.records
         /\ tracker_file' = tracker_file
      ]_vars

\* C13: when add_file, mark_sent or remove_file has returned, the file
\* holds the records' mapping and a tracker built from it has that mapping;
\* a tracker built with no file is empty.
C13_PersistedIsMemory ==
    /\ sender.pc \in {"add_file", "mark_sent", "remove_file"} =>
         /\ Mapping(load(tracker_file)) = Mapping(sender.records)
         /\ Len(load(tracker_file)) = Len(sender.records)
         /\ tracker_file.exists =>
              {<<tracker_file.rows[i].filename, tracker_file.rows[i].is_sent = "True">> :
                 i \in DOMAIN tracker_file.rows} = Mapping(sender.records)
    /\ (sender.pc = "init" /\ ~tracker_file.exists) => sender.records = <<>>

\* a mutating call returned with a sent and an unsent entry in the ledger
C13_Witness ==
    /\ sender.pc = "mark_sent"
    /\ tracker_file.exists
    /\ \E m, n \in ApiNames : <<m, TRUE>> \in Mapping(sender.records)
                              /\ <<n, FALSE>> \in Mapping(sender.records)

\* C18: add_file of a new name appends one unsent entry for it and leaves
\* the others alone; add_file of a tracked name, sent or not, changes nothing.
C18_AddFileIdempotent ==
    [][sender'.pc = "add_file" =>
         LET f == sender'.filename IN
         IF f \in Tracked(sender.records)
         THEN sender'.records = sender.records /\ tracker_file' = tracker_file
         ELSE /\ sender'.records = Append(sender.records, [filename |-> f, is_sent |-> FALSE])
              /\ Cardinality({i \in DOMAIN sender'.records : sender'.records[i].filename = f}) = 1
              /\ Mapping(load(tracker_file')) = Mapping(sender'.records)
      ]_vars

\* add_file returned for a name whose entry is sent
C18_Witness ==
    /\ sender.pc = "add_file"
    /\ <<sender.filename, TRUE>> \in Mapping(sender.records)

(***************************************************************************)
(* Ingests the store refuses, and streams without a budget (SpecStore).    *)
(***************************************************************************)
\* C17: an ingest for a game that is not configured is answered 400 by the
\* step that starts its handler body: nothing is written, no enforcement
\* pass runs for it, every configured stream's directory is unchanged, and
\* the store goes on receiving requests.
C17_UnknownStreamRejected ==
    /\ [][\A c \in Conns :
            (/\ req[c].pc = "received"
             /\ req'[c].pc # "received"
             /\ req'[c].game_name \notin DOMAIN games)
            => /\ req'[c].pc = "done"
               /\ req'[c].status = 400
               /\ archive' = archive]_vars
    /\ [](\A c \in Conns :
            /\ InHandler(c) => req[c].game_name \in DOMAIN games
            /\ (req[c].pc = "done" /\ req[c].status = 400 /\ ingests < MaxIngests)
               => ENABLED (\E k \in Conns : receive_backup(k)))

\* an ingest for the unknown game "zeta" was refused while the configured
\* stream holds an artifact, and a further request can still arrive
C17_Witness ==
    \E c \in Conns :
      /\ req[c].pc = "done"
      /\ req[c].status = 400
      /\ req[c].game_name = "zeta"
      /\ ingests < MaxIngests
      /\ \E g \in DOMAIN games : Artifacts(archive[g]) # {}

\* the stream's configured budget is <= 0
NoBudget(g) == g \in DOMAIN games /\ games[g].max_size_gb.num <= 0

\* C19: in a stream whose budget is <= 0 no step removes an artifact and no
\* pass evicts anything; an ingest that returned left every artifact it
\* found, and its own, resident.
C19_NoBudgetNoEviction ==
    /\ [][\A g \in DOMAIN games :
            NoBudget(g) => Artifacts(archive[g]) \subseteq Artifacts(archive'[g])]_vars
    /\ [](\A c \in Conns :
            NoBudget(req[c].game_name)
            => /\ req[c].evicted = <<>>
               /\ (req[c].pc = "done" /\ req[c].status = 200)
                  => /\ Artifacts(req[c].before) \subseteq Artifacts(req[c].after)
                     /\ req[c].filename \in Artifacts(req[c].after)
                     /\ req[c].after = req[c].before)

\* an ingest returned into a stream with a negative budget that holds three
\* artifacts, more bytes than any positive budget of the model
C19_Witness ==
    \E c \in Conns :
      /\ req[c].pc = "done"
      /\ req[c].status = 200
      /\ games[req[c].game_name].max_size_gb.num < 0
      /\ Cardinality(Artifacts(archive[req[c].game_name])) = 3
      /\ ResidentBytes(archive[req[c].game_name]) > 2

(***************************************************************************)
(* Overwriting by name (SpecUploads).                                      *)
(***************************************************************************)
\* an ingest returned without its pass evicting anything
ReturnedWhole(c) ==
    /\ req[c].pc = "done"
    /\ req[c].status = 200
    /\ req[c].evicted = <<>>

\* the same name was written before into the same stream, with other bytes
WrittenBefore(c) ==
    \E u \in uploads :
      /\ u.game_name = req[c].game_name
      /\ u.filename = req[c].filename
      /\ u.body # req[c].body

\* C12: after an ingest that evicted nothing, the stream holds under the
\* ingest's name one regular file with the bytes and the size of this
\* ingest, whatever the name held before; every stats response lists the
\* name once, with this ingest's size (as size_mb, rounded to 2 decimals),
\* and counts one backup when the stream holds no other artifact.
C12_OverwriteByName ==
    \A c \in Conns :
      ReturnedWhole(c) =>
        LET g == req[c].game_name
            fn == req[c].filename
        IN  /\ archive[g] = req[c].after
            /\ archive[g][fn].exists /\ archive[g][fn].is_file
            /\ archive[g][fn].data = req[c].body
            /\ archive[g][fn].st_size = Len(req[c].body)
            /\ \A st \in get_stats(archive[g]) :
                 /\ Cardinality({i \in DOMAIN st.backups : st.backups[i].filename = fn}) = 1
                 /\ \A i \in DOMAIN st.backups :
                      st.backups[i].filename = fn =>
                        st.backups[i].size_mb = round(Len(req[c].body), 1024 * 1024)
                 /\ st.backup_count = Cardinality(Artifacts(archive[g]))
                 /\ Artifacts(archive[g]) = {fn} => st.backup_count = 1

\* the second of two ingests returned, both of one name: the first wrote two
\* bytes, this one wrote the byte 1, and the stream holds this file only, next to a
\* subdirectory that the stats do not count
C12_Witness ==
    \E c \in Conns :
      /\ ReturnedWhole(c)
      /\ WrittenBefore(c)
      /\ ingests = 2
      /\ req[c].body = <<1>>
      /\ \E u \in uploads : u.filename = req[c].filename /\ Len(u.body) = 2
      /\ Artifacts(archive[req[c].game_name]) = {req[c].filename}
      /\ iterdir(archive[req[c].game_name]) # {req[c].filename}

(***************************************************************************)
(* The receiver's faults (SpecStoreDiskFull, SpecStoreCrash).              *)
(***************************************************************************)
\* C16: no partially written artifact is ever visible: a step that creates
\* or changes a file of a stream leaves under that name the complete body of
\* the request whose handler made the step.
C16_NoPartialArtifact ==
    [][\A g \in DOMAIN games, fn \in ArchiveNames :
         (archive'[g][fn] # archive[g][fn] /\ archive'[g][fn].exists)
         => \E c \in Conns :
              /\ req'[c].game_name = g
              /\ req'[c].filename = fn
              /\ archive'[g][fn].data = req'[c].body]_vars

\* the bytes of the artifacts an ingest found next to its own file
OthersBytes(c) ==
    SumSizes(req[c].before, Artifacts(req[c].before) \ {req[c].filename})

\* C20: a crash between a write and the end of its pass may leave a stream
\* over its budget B > 0; the next ingest into the stream that returns
\* leaves it with resident bytes <= B, or empty.
C20_CompliantAfterCrash ==
    \A c \in Conns :
      (Returned(c) /\ OthersBytes(c) > max_size_bytes(req[c].game_name))
      => /\ archive[req[c].game_name] = req[c].after
         /\ \/ ResidentBytes(req[c].after) <= max_size_bytes(req[c].game_name)
            \/ Artifacts(req[c].after) = {}

\* an ingest returned that had found the stream over budget before its own
\* write, which no behaviour without a crash allows, and evicted two
\* artifacts
C20_Witness ==
    \E c \in Conns :
      /\ Returned(c)
      /\ OthersBytes(c) > max_size_bytes(req[c].game_name)
      /\ Len(req[c].evicted) = 2
      /\ Artifacts(req[c].after) # {}

(***************************************************************************)
(* What a run does with the detector's answers (SpecCycle).                *)
(***************************************************************************)
\* C21: in a run, requests.post is called only for names the detector
\* answered True for in this run, and at most once per name; a name the
\* detector answered False for is never past the detector, is not posted,
\* stays tracked and unsent in the process and in the file, and is not the
\* name an exception left the run with.
C21_UnstableSkipped ==
    /\ \A i \in DOMAIN cycle.posted : cycle.posted[i] \in cycle.stable
    /\ \A i, j \in DOMAIN cycle.posted : i # j => cycle.posted[i] # cycle.posted[j]
    /\ sender.pc \in {"send", "post", "mark"} => sender.filename \in cycle.stable
    /\ cycle.stable \cap cycle.unstable = {}
    /\ \A n \in cycle.unstable :
         /\ \A i \in DOMAIN cycle.posted : cycle.posted[i] # n
         /\ ~MemSent(n)
         /\ sender.pc \in {"stable", "send", "post", "mark"} => n \in Tracked(sender.records)
         /\ sender.exit # "killed" =>
              (n \in Tracked(load(tracker_file)) /\ ~DiskSent(n))
         /\ sender.exit = "raised" => sender.filename # n

\* a run is over in which the detector answered False for one name (it had
\* vanished, or the timeout passed) and requests.post was called for the
\* other
C21_Witness ==
    /\ sender.exit = "complete"
    /\ cycle.unstable # {}
    /\ cycle.posted # <<>>

(***************************************************************************)
(* What a pass evicts, and what it keeps (SpecStore).                      *)
(***************************************************************************)
\* the resident bytes of the stream after the first k evictions of a pass
RECURSIVE BytesAfter(_, _)
BytesAfter(f, k) ==
    IF k = 0 THEN ResidentBytes(f.before)
    ELSE BytesAfter(f, k - 1) - f.before[f.evicted[k]].st_size

\* a pass started, in a stream with budget B > 0
InPass(c) ==
    /\ req[c].pc \in {"evicting", "enforced", "done"}
    /\ req[c].status \in {0, 200}
    /\ games[req[c].game_name].max_size_gb.num > 0

\* C22: in a pass with budget B > 0 each artifact is deleted while the
\* stream's resident bytes are still > B; the deleted artifacts are distinct
\* artifacts of the listing, none newer than one that was kept, deleted in
\* ascending mtime order; the pass ends with the bytes <= B or with nothing
\* left to delete, so no shorter prefix would do; a stream within budget
\* loses nothing.
C22_NeverOverEvicts ==
    \A c \in Conns :
      InPass(c) =>
        LET f == req[c]
            B == max_size_bytes(f.game_name)
        IN  /\ \A k \in DOMAIN f.evicted :
                 /\ BytesAfter(f, k - 1) > B
                 /\ f.evicted[k] \in Artifacts(f.before)
                 /\ \A j \in DOMAIN f.evicted : j < k =>
                      /\ f.evicted[j] # f.evicted[k]
                      /\ f.before[f.evicted[j]].st_mtime <= f.before[f.evicted[k]].st_mtime
                 /\ \A n \in Artifacts(f.before) \ Evicted(f) :
                      f.before[f.evicted[k]].st_mtime <= f.before[n].st_mtime
            /\ ResidentBytes(f.before) <= B => f.evicted = <<>>
            /\ f.pc \in {"enforced", "done"} =>
                 \/ BytesAfter(f, Len(f.evicted)) <= B
                 \/ Evicted(f) = Artifacts(f.before)
            /\ f.pc = "done" =>
                 /\ Artifacts(f.after) = Artifacts(f.before) \ Evicted(f)
                 /\ ResidentBytes(f.after) = BytesAfter(f, Len(f.evicted))

\* a pass over three artifacts stopped after one eviction with the stream
\* exactly at its budget of 2 bytes, two artifacts kept
C22_Witness ==
    \E c \in Conns :
      /\ Returned(c)
      /\ Cardinality(Artifacts(req[c].before)) = 3
      /\ Len(req[c].evicted) = 1
      /\ ResidentBytes(req[c].after) = max_size_bytes(req[c].game_name)
      /\ max_size_bytes(req[c].game_name) = 2

\* C23 as stated: when an ingest into a stream with budget B > 0 returns,
\* the artifact it wrote is resident unless the stream ended empty, and it
\* was evicted only if its size alone exceeds B.
C23_WrittenIsLast ==
    \A c \in Conns :
      Returned(c) =>
        /\ \/ req[c].filename \in Artifacts(req[c].after)
           \/ Artifacts(req[c].after) = {}
        /\ req[c].filename \in Evicted(req[c]) =>
             req[c].size > max_size_bytes(req[c].game_name)

\* C23, amended: the same when the artifact written has a larger mtime than
\* every other artifact of the stream; it is then the last one evicted, if
\* evicted at all.  In any case every artifact with a smaller mtime than the
\* written one is evicted before it.
C23_NewestIsLast ==
    \A c \in Conns :
      Returned(c) =>
        LET f == req[c]
            B == max_size_bytes(f.game_name)
        IN  /\ StrictlyNewest(c) =>
                 /\ \/ f.filename \in Artifacts(f.after)
                    \/ Artifacts(f.after) = {}
                 /\ f.filename \in Evicted(f) =>
                      /\ f.size > B
                      /\ f.evicted[Len(f.evicted)] = f.filename
                      /\ Evicted(f) = Artifacts(f.before)
            /\ f.filename \in Evicted(f) =>
                 \A n \in Artifacts(f.before) :
                   f.before[n].st_mtime < f.before[f.filename].st_mtime =>
                     n \in Evicted(f)

\* an ingest returned whose artifact is newer than the two others, which
\* the pass evicted, and is the only one left
C23_Witness ==
    \E c \in Conns :
      /\ Returned(c)
      /\ StrictlyNewest(c)
      /\ Len(req[c].evicted) = 2
      /\ Artifacts(req[c].after) = {req[c].filename}
      /\ req[c].size > 0

====
